---- MODULE Spec2Model ----
(***************************************************************************)
(* Turn synchronisation of one game room (game/consumers.py GameConsumer,  *)
(* game/state.py GameState, game/gm_engine.py apply_gm_result_to_state,    *)
(* game/multi_mode/views.py JoinRoomView / LeaveRoomView).                 *)
(*                                                                         *)
(* Every connected user has one GameConsumer; a consumer handles one       *)
(* message at a time, and every await of a handler is a point where the    *)
(* handlers of the other users of the room run.  One action below is one   *)
(* stretch of a handler between two awaits that touch shared state.        *)
(***************************************************************************)
EXTENDS Integers, Sequences, FiniteSets, TLC

\* ------------------------------------------------------------------ bounds
MaxTurn == 2
MaxMerges == 1
MaxScene == 2

\* --------------------------------------------------------------- constants
Users == {"u1", "u2"}
max_players == 2
Absent == -1
NoVal == "none"
Locations == {"L1"}
LogEntries == {[events |-> "e1"]}
Choices == {"A", "B"}

VARIABLES
    active,        \* user ids of the room's GameJoin rows with left_at null
    room_status,   \* GameRoom.status
    turn_results,  \* the stored contributions of the room: <<user id, result>>
    game_state,    \* the stored session record (game:{room_id}:state)
    pc,            \* position of each user's handler
    player_result, \* handler local: content["player_result"]
    active_ids,    \* handler local: active_participant_ids
    human_results, \* handler local: submitted_results / human_player_results
    state,         \* handler local: state read at the start of the resolution
    ready_users,   \* the users marked ready for the next scene
    ready_users_set, \* handler local: the ready users it read
    call           \* the call of a function under study: its inputs and outputs

vars == <<active, room_status, turn_results, game_state, pc,
          player_result, active_ids, human_results, state,
          ready_users, ready_users_set, call>>

ready_vars == <<ready_users, ready_users_set>>

\* No function call is under study while the room runs.
NoCall == [op |-> "none"]

\* ------------------------------------------------------- contribution store
\* One hash per room, field = user id, value = the player's result.
Keys(results) == {p[1] : p \in results}

store_turn_result(results, uid, res) ==
    {p \in results : p[1] # uid} \cup {<<uid, res>>}

get_all_turn_results(results) == results

clear_turn_results(results) == {}

\* ------------------------------------------------------------ dictionaries
\* A dict is a function on the set of its keys; a key that is absent is
\* outside the domain.
EmptyDict == [k \in {} |-> 0]

\* d.get(k, default)
Get(d, k, default) == IF k \in DOMAIN d THEN d[k] ELSE default

\* d[k] = v
Put(d, k, v) == [x \in DOMAIN d \cup {k} |-> IF x = k THEN v ELSE d[x]]

\* d.update(e)
Update(d, e) ==
    [x \in DOMAIN d \cup DOMAIN e |-> IF x \in DOMAIN e THEN e[x] ELSE d[x]]

\* d.setdefault(k, v), as the dict it leaves
SetDefault(d, k, v) == IF k \in DOMAIN d THEN d ELSE Put(d, k, v)

SeqToSet(q) == {q[i] : i \in 1 .. Len(q)}

\* list(a_set): the elements once each, in an order the caller cannot choose
RECURSIVE SetToSeq(_)
SetToSeq(S) ==
    IF S = {} THEN <<>>
    ELSE LET x == CHOOSE y \in S : TRUE IN <<x>> \o SetToSeq(S \ {x})

\* ------------------------------------------------------------ state merging
\* The session record.  A key the code reads with a default (world, log,
\* party, hurt_count, cooldowns, a member's sheet) is held with that default
\* when it is absent; turn and current_scene are Absent when absent.
InitialGameState ==
    [turn |-> Absent, current_scene |-> 0, world |-> EmptyDict, log |-> <<>>,
     party |-> <<>>, hurt_count |-> EmptyDict, cooldowns |-> EmptyDict]

TurnOf(s) == IF s.turn = Absent THEN 0 ELSE s.turn

\* None, and what is falsy: `if cur:` (line 622), `x or {}` (lines 618-639)
Truthy(v) == v # NoVal /\ v # ""

\* An inventory entry is a string, held as [str |-> s], or a dict with a name
\* and perhaps charges; likewise a log entry is a dict or, held as [str |-> s],
\* a string.
IsDict(it) == "str" \notin DOMAIN it

\* lines 662-665
ItemName(it) == IF IsDict(it) THEN Get(it, "name", "None") ELSE it.str

\* line 151: the ids of the state's party
party_ids(s) == {s.party[i].id : i \in 1 .. Len(s.party)}

\* Only the entries that name a party member are kept.
FixSection_DropsAnonymous(s, arr) ==
    SelectSeq(arr, LAMBDA item : Get(item, "player_id", "") \in party_ids(s))

\* lines 193-205: the entries of shari.assess / shari.rolls that name a party
\* member or nobody
FixSection(s, arr) ==
    SelectSeq(arr, LAMBDA item :
                      Get(item, "player_id", "") \in party_ids(s) \cup {""})

\* lines 143-208: every key set to its default where the generator left it
\* out.  The generator's values have the types of the response schema (dicts
\* where dicts are expected).
_normalize_result(s, result) ==
    LET r1 == SetDefault(result, "turn", TurnOf(s) + 1)
        r2 == SetDefault(r1, "narration", "")
        r3 == SetDefault(r2, "world", s.world)
        r4 == SetDefault(r3, "party", <<>>)
        r5 == SetDefault(r4, "log_append", <<>>)
        personal0 == Get(r5, "personal", EmptyDict)
        personal == [pid \in DOMAIN personal0 \cup party_ids(s) |->
                        Get(personal0, pid, "")]
        r6 == Put(r5, "personal", personal)
        shari0 == Get(r6, "shari", EmptyDict)
        shari1 == SetDefault(shari0, "assess", <<>>)
        shari2 == SetDefault(shari1, "rolls", <<>>)
        upd0 == Get(shari2, "update", EmptyDict)
        upd1 == SetDefault(upd0, "characterHurt", EmptyDict)
        upd2 == SetDefault(upd1, "currentLocation",
                           Get(s.world, "location", NoVal))
        upd3 == SetDefault(upd2, "previousLocation", NoVal)
        upd4 == SetDefault(upd3, "notes", "")
        inv0 == Get(upd4, "inventory", EmptyDict)
        inv1 == SetDefault(inv0, "consumed", EmptyDict)
        inv2 == SetDefault(inv1, "added", EmptyDict)
        inv3 == SetDefault(inv2, "charges", EmptyDict)
        skl0 == Get(upd4, "skills", EmptyDict)
        skl1 == SetDefault(skl0, "cooldown", EmptyDict)
        upd == Put(Put(upd4, "inventory", inv3), "skills", skl1)
        shari3 == Put(shari2, "update", upd)
        shari4 == Put(Put(shari3, "assess", FixSection(s, shari3.assess)),
                      "rolls", FixSection(s, shari3.rolls))
    IN  Put(r6, "shari", shari4)

\* party_index.get(pid), line 594: 0 stands for None
PartyIndex(party, pid) ==
    LET idxs == {i \in 1 .. Len(party) : party[i].id = pid}
    IN  IF idxs = {} THEN 0 ELSE CHOOSE i \in idxs : \A j \in idxs : j <= i

\* The hp of the delta replaces the member's hp instead of being added to it.
ApplyChange_Overwrite(party, change) ==
    LET idx == PartyIndex(party, change.id)
        ch == Get(change, "changes", EmptyDict)
        sheet == party[idx].sheet
        sheet1 == IF "hp" \in DOMAIN ch THEN Put(sheet, "hp", ch.hp) ELSE sheet
        sheet2 == IF "status" \in DOMAIN ch
                  THEN Put(sheet1, "status",
                           SetToSeq(SeqToSet(Get(sheet1, "status", <<>>))
                                        \cup SeqToSet(ch.status)))
                  ELSE sheet1
    IN  IF idx = 0 THEN party ELSE [party EXCEPT ![idx].sheet = sheet2]

\* lines 596-615: one entry of result["party"]
ApplyChange(party, change) ==
    LET idx == PartyIndex(party, change.id)
        ch == Get(change, "changes", EmptyDict)
        sheet == party[idx].sheet
        sheet1 == IF "hp" \in DOMAIN ch
                  THEN Put(sheet, "hp", Get(sheet, "hp", 0) + ch.hp)
                  ELSE sheet
        sheet2 == IF "status" \in DOMAIN ch
                  THEN Put(sheet1, "status",
                           SetToSeq(SeqToSet(Get(sheet1, "status", <<>>))
                                        \cup SeqToSet(ch.status)))
                  ELSE sheet1
    IN  IF idx = 0 THEN party ELSE [party EXCEPT ![idx].sheet = sheet2]

\* lines 595-615
RECURSIVE ApplyPartyChanges(_, _)
ApplyPartyChanges(party, changes) ==
    IF changes = <<>> THEN party
    ELSE ApplyPartyChanges(ApplyChange(party, Head(changes)), Tail(changes))

\* lines 690-698 (_apply_delta): the entries of one list after the charges
\* delta; an entry without charges counts as having 0
ApplyDelta(lst, name_delta) ==
    [i \in 1 .. Len(lst) |->
        IF IsDict(lst[i]) /\ ItemName(lst[i]) \in DOMAIN name_delta
        THEN Put(lst[i], "charges",
                 Get(lst[i], "charges", 0) + name_delta[ItemName(lst[i])])
        ELSE lst[i]]

\* The added entries are put in front of the member's items.
ApplyInventory_Prepends(member, consumed, added, charges) ==
    LET pid == member.id
        sheet == member.sheet
        items == Get(sheet, "items", <<>>)
        spells == Get(sheet, "spells", <<>>)
        Kept(it) == ItemName(it) \notin SeqToSet(consumed[pid])
        items1 == IF pid \in DOMAIN consumed THEN SelectSeq(items, Kept) ELSE items
        spells1 == IF pid \in DOMAIN consumed THEN SelectSeq(spells, Kept) ELSE spells
        items2 == IF pid \in DOMAIN added THEN added[pid] \o items1 ELSE items1
        items3 == IF pid \in DOMAIN charges
                  THEN ApplyDelta(items2, charges[pid]) ELSE items2
        spells3 == IF pid \in DOMAIN charges
                   THEN ApplyDelta(spells1, charges[pid]) ELSE spells1
    IN  IF pid \in DOMAIN consumed \cup DOMAIN added \cup DOMAIN charges
        THEN [member EXCEPT !.sheet = Put(Put(sheet, "items", items3),
                                          "spells", spells3)]
        ELSE member

\* lines 652-701 for one member: consumed, then added, then charges
ApplyInventory(member, consumed, added, charges) ==
    LET pid == member.id
        sheet == member.sheet
        items == Get(sheet, "items", <<>>)
        spells == Get(sheet, "spells", <<>>)
        Kept(it) == ItemName(it) \notin SeqToSet(consumed[pid])
        items1 == IF pid \in DOMAIN consumed THEN SelectSeq(items, Kept) ELSE items
        spells1 == IF pid \in DOMAIN consumed THEN SelectSeq(spells, Kept) ELSE spells
        items2 == IF pid \in DOMAIN added THEN items1 \o added[pid] ELSE items1
        items3 == IF pid \in DOMAIN charges
                  THEN ApplyDelta(items2, charges[pid]) ELSE items2
        spells3 == IF pid \in DOMAIN charges
                   THEN ApplyDelta(spells1, charges[pid]) ELSE spells1
    IN  IF pid \in DOMAIN consumed \cup DOMAIN added \cup DOMAIN charges
        THEN [member EXCEPT !.sheet = Put(Put(sheet, "items", items3),
                                          "spells", spells3)]
        ELSE member

\* The new entries are put in front of the log.
AppendLog_Prepends(log, log_append) == SelectSeq(log_append, IsDict) \o log

\* lines 588-590: the entries that are dicts are appended, one by one
AppendLog(log, log_append) == log \o SelectSeq(log_append, IsDict)

\* Every id the delta names is counted, hurt or not.
ApplyHurt_CountsEveryMention(hc, churt) ==
    [pid \in DOMAIN hc \cup DOMAIN churt |->
        IF pid \in DOMAIN churt THEN Get(hc, pid, 0) + 1 ELSE hc[pid]]

\* lines 629-633: hc[pid] = int(hc.get(pid, 0)) + 1 for every id marked hurt
ApplyHurt(hc, churt) ==
    [pid \in DOMAIN hc \cup {p \in DOMAIN churt : churt[p]} |->
        IF pid \in DOMAIN churt /\ churt[pid]
        THEN Get(hc, pid, 0) + 1 ELSE hc[pid]]

\* Each counter of the delta is added to the stored counter.
ApplyCooldown_Adds(cdstore, cooldown) ==
    [pid \in DOMAIN cdstore \cup DOMAIN cooldown |->
        IF pid \in DOMAIN cooldown
        THEN LET bucket == Get(cdstore, pid, EmptyDict)
             IN  [sname \in DOMAIN bucket \cup DOMAIN cooldown[pid] |->
                     IF sname \in DOMAIN cooldown[pid]
                     THEN Get(bucket, sname, 0) + cooldown[pid][sname]
                     ELSE bucket[sname]]
        ELSE cdstore[pid]]

\* lines 706-713: bucket[sname] = int(turns) for every skill of the delta, in
\* the bucket of the id (made where there is none)
ApplyCooldown(cdstore, cooldown) ==
    [pid \in DOMAIN cdstore \cup DOMAIN cooldown |->
        IF pid \in DOMAIN cooldown
        THEN Update(Get(cdstore, pid, EmptyDict), cooldown[pid])
        ELSE cdstore[pid]]

\* Every write of the merge goes to the copy made at line 583.
deepcopy(x) == x

\* lines 583-715
apply_gm_result_to_state(s, result) ==
    LET new_state == deepcopy(s)
        world1 == IF "world" \in DOMAIN result
                  THEN Update(new_state.world, result.world)
                  ELSE new_state.world
        log1 == AppendLog(new_state.log, Get(result, "log_append", <<>>))
        party1 == ApplyPartyChanges(new_state.party, Get(result, "party", <<>>))
        upd == Get(Get(result, "shari", EmptyDict), "update", EmptyDict)
        cur == Get(upd, "currentLocation", NoVal)
        world2 == IF Truthy(cur) THEN Put(world1, "location", cur) ELSE world1
        prev == Get(upd, "previousLocation", NoVal)
        world3 == IF prev # NoVal THEN Put(world2, "prev_location", prev)
                  ELSE world2
        churt == Get(upd, "characterHurt", EmptyDict)
        hc1 == ApplyHurt(new_state.hurt_count, churt)
        inv == Get(upd, "inventory", EmptyDict)
        consumed == Get(inv, "consumed", EmptyDict)
        added == Get(inv, "added", EmptyDict)
        charges == Get(inv, "charges", EmptyDict)
        party2 == [i \in 1 .. Len(party1) |->
                      ApplyInventory(party1[i], consumed, added, charges)]
        cooldown == Get(Get(upd, "skills", EmptyDict), "cooldown", EmptyDict)
        cd1 == ApplyCooldown(new_state.cooldowns, cooldown)
    IN  [new_state EXCEPT !.world = world3, !.log = log1,
                          !.turn = TurnOf(s) + 1, !.party = party2,
                          !.hurt_count = hc1, !.cooldowns = cd1]

\* The input state after the call: the merge writes to new_state only.
StateAfterApply(s, result) == s

\* The input result after the call.  items.append(n) (line 681) puts the very
\* entries of result's added lists into the new state's items, and _apply_delta
\* (line 696) then writes the charges of every dict among those items: the
\* entries of the input result are written through.
ResultAfterApply(s, result) ==
    LET upd == Get(Get(result, "shari", EmptyDict), "update", EmptyDict)
        inv == Get(upd, "inventory", EmptyDict)
        added == Get(inv, "added", EmptyDict)
        charges == Get(inv, "charges", EmptyDict)
        added1 == [pid \in DOMAIN added |->
                      IF pid \in DOMAIN charges /\ PartyIndex(s.party, pid) # 0
                      THEN ApplyDelta(added[pid], charges[pid])
                      ELSE added[pid]]
    IN  IF added1 = added THEN result
        ELSE Put(result, "shari",
                 Put(result.shari, "update",
                     Put(upd, "inventory", Put(inv, "added", added1))))

\* What resolve_turn returns in the room: normalized results.
GmResults ==
    {_normalize_result(InitialGameState,
                       [is_final_turn |-> f, world |-> [location |-> l],
                        log_append |-> q])
         : f \in BOOLEAN, l \in Locations,
           q \in {<<>>} \cup {<<e>> : e \in LogEntries}}

\* ----------------------------------------------------------------- helpers
\* The record handle_start_game_llm stores before the first scene exists
\* ({"character_setup": ...}); it stays so when the scene generation fails.
SetupOnlyState == [InitialGameState EXCEPT !.current_scene = Absent]

NoState == [InitialGameState EXCEPT !.current_scene = Absent]

\* The positions of a handler after handle_turn_resolution_with_ai returned
\* (from line 666, 713, 744 or 779) and before line 566.
Returned == {"ret_no_scene", "ret_error", "ret_game_over", "ret_resolved"}

InFlight(h) == pc[h] \in {"resolve", "calling"}

Init ==
    /\ active = Users
    /\ room_status = "play"
    /\ turn_results = {}
    /\ game_state \in {InitialGameState, SetupOnlyState}
    /\ pc = [h \in Users |-> "idle"]
    /\ player_result = [h \in Users |-> NoVal]
    /\ active_ids = [h \in Users |-> {}]
    /\ human_results = [h \in Users |-> {}]
    /\ state = [h \in Users |-> NoState]
    /\ ready_users = {}
    /\ ready_users_set = [h \in Users |-> {}]
    /\ call = NoCall

\* ------------------------------------------------------- room membership
JoinRoom(u) ==
    /\ u \notin active
    /\ Cardinality(active) < max_players
    /\ active' = active \cup {u}
    /\ UNCHANGED <<call, ready_vars, room_status, turn_results, game_state, pc,
                   player_result, active_ids, human_results, state>>

LeaveRoom(u) ==
    /\ u \in active
    /\ active' = active \ {u}
    /\ room_status' = IF active' = {} THEN "finish" ELSE room_status
    /\ UNCHANGED <<call, ready_vars, turn_results, game_state, pc,
                   player_result, active_ids, human_results, state>>

\* ------------------------------------------- submit_player_choice handler
\* Last-submission-wins replaced by first-submission-wins.
Submit_FirstWins(h, res) ==
    /\ pc[h] = "idle"
    /\ player_result' = [player_result EXCEPT ![h] = res]
    /\ turn_results' = IF h \in Keys(turn_results)
                       THEN turn_results
                       ELSE store_turn_result(turn_results, h, res)
    /\ pc' = [pc EXCEPT ![h] = "get_active"]
    /\ UNCHANGED <<call, ready_vars, active, room_status, game_state,
                   active_ids, human_results, state>>

\* receive_json, lines 538-543: the player's result is stored under the user's id.
Submit(h, res) ==
    /\ pc[h] = "idle"
    /\ player_result' = [player_result EXCEPT ![h] = res]
    /\ turn_results' = store_turn_result(turn_results, h, res)
    /\ pc' = [pc EXCEPT ![h] = "get_active"]
    /\ UNCHANGED <<call, ready_vars, active, room_status, game_state,
                   active_ids, human_results, state>>

\* receive_json, lines 546-547
GetActive(h) ==
    /\ pc[h] = "get_active"
    /\ active_ids' = [active_ids EXCEPT ![h] = active]
    /\ player_result' = [player_result EXCEPT ![h] = NoVal]
    /\ pc' = [pc EXCEPT ![h] = "check"]
    /\ UNCHANGED <<call, ready_vars, active, room_status, turn_results, game_state,
                   human_results, state>>

\* Completeness decided by counting entries instead of by the subset test.
Check_ByCount(h) ==
    /\ pc[h] = "check"
    /\ LET submitted_results == get_all_turn_results(turn_results)
           submitted_user_ids == Keys(submitted_results)
       IN  IF ~(Cardinality(submitted_user_ids) >= Cardinality(active_ids[h]))
           THEN /\ pc' = [pc EXCEPT ![h] = "turn_waiting"]
                /\ UNCHANGED human_results
           ELSE /\ human_results' = [human_results EXCEPT ![h] = submitted_results]
                /\ pc' = [pc EXCEPT ![h] = "resolve"]
    /\ active_ids' = [active_ids EXCEPT ![h] = {}]
    /\ UNCHANGED <<call, ready_vars, active, room_status, turn_results, game_state,
                   player_result, state>>

\* receive_json, lines 549-564
Check(h) ==
    /\ pc[h] = "check"
    /\ LET submitted_results == get_all_turn_results(turn_results)
           submitted_user_ids == Keys(submitted_results)
       IN  IF ~(active_ids[h] \subseteq submitted_user_ids)
           THEN /\ pc' = [pc EXCEPT ![h] = "turn_waiting"]
                /\ UNCHANGED human_results
           ELSE /\ human_results' = [human_results EXCEPT ![h] = submitted_results]
                /\ pc' = [pc EXCEPT ![h] = "resolve"]
    /\ active_ids' = [active_ids EXCEPT ![h] = {}]
    /\ UNCHANGED <<call, ready_vars, active, room_status, turn_results, game_state,
                   player_result, state>>

\* The clear of line 566 is reached on the waiting branch as well.
BroadcastWaiting_Clears(h) ==
    /\ pc[h] = "turn_waiting"
    /\ turn_results' = clear_turn_results(turn_results)
    /\ pc' = [pc EXCEPT ![h] = "idle"]
    /\ UNCHANGED <<call, ready_vars, active, room_status, game_state,
                   player_result, active_ids, human_results, state>>

\* receive_json, lines 555-559: the turn_waiting broadcast ends the handler
BroadcastWaiting(h) ==
    /\ pc[h] = "turn_waiting"
    /\ pc' = [pc EXCEPT ![h] = "idle"]
    /\ UNCHANGED <<call, ready_vars, active, room_status, turn_results, game_state,
                   player_result, active_ids, human_results, state>>

\* handle_turn_resolution_with_ai, lines 658-666
ReadState(h) ==
    /\ pc[h] = "resolve"
    /\ IF game_state.current_scene = Absent
       THEN /\ pc' = [pc EXCEPT ![h] = "ret_no_scene"]
            /\ UNCHANGED state
       ELSE /\ state' = [state EXCEPT ![h] = game_state]
            /\ pc' = [pc EXCEPT ![h] = "calling"]
    /\ UNCHANGED <<call, ready_vars, active, room_status, turn_results, game_state,
                   player_result, active_ids, human_results>>

\* The error path resets the stored record the way handle_start_game_llm does,
\* so that no current scene is left.
ResolveFail_DropsScene(h) ==
    /\ pc[h] = "calling"
    /\ game_state' = SetupOnlyState
    /\ pc' = [pc EXCEPT ![h] = "ret_error"]
    /\ state' = [state EXCEPT ![h] = NoState]
    /\ UNCHANGED <<call, ready_vars, active, room_status, turn_results,
                   player_result, active_ids, human_results>>

\* The turn counter is advanced in the stored record before the engine call
\* has succeeded.
ResolveFail_PartialMerge(h) ==
    /\ pc[h] = "calling"
    /\ TurnOf(state[h]) < MaxTurn
    /\ game_state' = [game_state EXCEPT !.turn = TurnOf(state[h]) + 1]
    /\ pc' = [pc EXCEPT ![h] = "ret_error"]
    /\ state' = [state EXCEPT ![h] = NoState]
    /\ UNCHANGED <<call, ready_vars, active, room_status, turn_results,
                   player_result, active_ids, human_results>>

\* handle_turn_resolution_with_ai, lines 706-713: resolve_turn raised
ResolveFail(h) ==
    /\ pc[h] = "calling"
    /\ pc' = [pc EXCEPT ![h] = "ret_error"]
    /\ state' = [state EXCEPT ![h] = NoState]
    /\ UNCHANGED <<call, ready_vars, active, room_status, turn_results, game_state,
                   player_result, active_ids, human_results>>

\* clear_game_state, lines 781-787: cache.delete("game_state_{room_id}")
\* deletes a key of the Django cache; the session record is the Redis key
\* "game:{room_id}:state" (state.py:50, 59), which the delete does not touch.
clear_game_state(record) == record

\* handle_turn_resolution_with_ai, lines 715-744: is_final_turn
GameOver(h) ==
    /\ pc[h] = "calling"
    /\ game_state' = clear_game_state(game_state)
    /\ room_status' = "waiting"
    /\ pc' = [pc EXCEPT ![h] = "ret_game_over"]
    /\ state' = [state EXCEPT ![h] = NoState]
    /\ UNCHANGED <<call, ready_vars, active, turn_results,
                   player_result, active_ids, human_results>>

\* handle_turn_resolution_with_ai, lines 746-779: merge and write
Commit(h, gm_result) ==
    /\ pc[h] = "calling"
    /\ ~gm_result.is_final_turn
    /\ TurnOf(state[h]) < MaxTurn
    /\ game_state' = apply_gm_result_to_state(state[h], gm_result)
    /\ pc' = [pc EXCEPT ![h] = "ret_resolved"]
    /\ state' = [state EXCEPT ![h] = NoState]
    /\ UNCHANGED <<call, ready_vars, active, room_status, turn_results,
                   player_result, active_ids, human_results>>

\* receive_json, line 566
ClearResults(h) ==
    /\ pc[h] \in Returned
    /\ turn_results' = clear_turn_results(turn_results)
    /\ human_results' = [human_results EXCEPT ![h] = {}]
    /\ pc' = [pc EXCEPT ![h] = "idle"]
    /\ UNCHANGED <<call, ready_vars, active, room_status, game_state,
                   player_result, active_ids, state>>

HandlerStep(h) ==
    \/ GetActive(h)
    \/ Check(h)
    \/ BroadcastWaiting(h)
    \/ ReadState(h)
    \/ ResolveFail(h)
    \/ GameOver(h)
    \/ \E r \in GmResults : Commit(h, r)
    \/ ClearResults(h)

Next ==
    \/ \E u \in Users : JoinRoom(u)
    \/ \E u \in Users : LeaveRoom(u)
    \/ \E h \in Users, res \in Choices : Submit(h, res)
    \/ \E h \in Users : HandlerStep(h)

Spec == Init /\ [][Next]_vars

FairSpec == Spec /\ \A h \in Users : WF_vars(HandlerStep(h))

\* The executions in which every started handler runs on, every user keeps
\* sending contributions, and a narrative generator that is called again and
\* again does not fail for ever.
RetrySpec ==
    /\ Spec
    /\ \A h \in Users : WF_vars(HandlerStep(h))
    /\ \A h \in Users : WF_vars(\E res \in Choices : Submit(h, res))
    /\ SF_vars(\E h \in Users, r \in GmResults : Commit(h, r))

\* ======================================================================
\* Judgement of one actor's action
\* (consumers.py _get_dc, _get_stat_value, _simulate_ai_turn_result;
\*  views.py SingleGameProceedView.post, lines 503-525)
\* ======================================================================
\* The room while a function is studied on its own: nothing of it moves.
RoomAtRest ==
    /\ active = Users
    /\ room_status = "play"
    /\ turn_results = {}
    /\ game_state = InitialGameState
    /\ pc = [h \in Users |-> "idle"]
    /\ player_result = [h \in Users |-> NoVal]
    /\ active_ids = [h \in Users |-> {}]
    /\ human_results = [h \in Users |-> {}]
    /\ state = [h \in Users |-> NoState]
    /\ ready_users = {}
    /\ ready_users_set = [h \in Users |-> {}]

room_vars == <<active, room_status, turn_results, game_state, pc,
               player_result, active_ids, human_results, state,
               ready_users, ready_users_set>>

\* The difficulty labels of the source are "초급" (beginner), "중급"
\* (intermediate) and "상급" (advanced); "legend" is a label outside the table.
Difficulties == {"beginner", "intermediate", "advanced", "legend"}

DiceValues == 1 .. 20
Stats == {"str", "dex"}
StatValues == {0, 2, 9}
Modifiers == {-2, 0, 3}

StatDicts ==
    {EmptyDict} \cup UNION {[{st} -> StatValues] : st \in Stats}

\* A character carries its stats under 'stats', under 'ability'.'stats', or
\* not at all.
AiCharacters ==
    {[id |-> "c1"]}
        \cup {[id |-> "c1", stats |-> d] : d \in StatDicts}
        \cup {[id |-> "c1", ability |-> [stats |-> d]] : d \in StatDicts}

ChoicesForRole == [id : {0}, appliedStat : Stats, modifier : Modifiers]

_get_dc(difficulty_str) ==
    CASE difficulty_str = "beginner" -> 10
      [] difficulty_str = "intermediate" -> 13
      [] difficulty_str = "advanced" -> 16
      [] OTHER -> 10

_get_stat_value(character, stat_kr) ==
    IF "stats" \in DOMAIN character
    THEN Get(character.stats, stat_kr, 0)
    ELSE LET stats_dict == Get(Get(character, "ability", EmptyDict),
                               "stats", EmptyDict)
         IN  Get(stats_dict, stat_kr, 0)

\* The total is compared with the difficulty class before the dice is looked at.
_simulate_ai_turn_result_TotalFirst(ai_character, ai_choice, dice, difficulty) ==
    LET stat_kr == ai_choice.appliedStat
        stat_value == _get_stat_value(ai_character, stat_kr)
        modifier == ai_choice.modifier
        total == dice + stat_value + modifier
        dc == _get_dc(difficulty)
        grade == IF total >= dc THEN "S"
                 ELSE IF dice = 20 THEN "SP"
                 ELSE IF dice = 1 THEN "SF"
                 ELSE "F"
    IN  [choiceId |-> ai_choice.id, grade |-> grade, dice |-> dice,
         appliedStat |-> stat_kr, statValue |-> stat_value,
         modifier |-> modifier, total |-> total,
         characterId |-> ai_character.id, dc |-> dc]

\* _simulate_ai_turn_result, lines 594-616, for the choice and the dice that
\* random.choice and random.randint returned; dc is the local of line 600.
_simulate_ai_turn_result(ai_character, ai_choice, dice, difficulty) ==
    LET stat_kr == ai_choice.appliedStat
        stat_value == _get_stat_value(ai_character, stat_kr)
        modifier == ai_choice.modifier
        total == dice + stat_value + modifier
        dc == _get_dc(difficulty)
        grade == IF dice = 20 THEN "SP"
                 ELSE IF dice = 1 THEN "SF"
                 ELSE IF total >= dc THEN "S"
                 ELSE "F"
    IN  [choiceId |-> ai_choice.id, grade |-> grade, dice |-> dice,
         appliedStat |-> stat_kr, statValue |-> stat_value,
         modifier |-> modifier, total |-> total,
         characterId |-> ai_character.id, dc |-> dc]

\* SingleGameProceedView.post, lines 509-524, for one AI character
SingleProceedAiResult(ai_char, ai_choice, dice) ==
    LET stats == Get(ai_char, "stats", EmptyDict)
        stat_value == Get(stats, ai_choice.appliedStat, 0)
        modifier == ai_choice.modifier
        total == dice + stat_value + modifier
        dc == 13
        grade == IF dice = 20 THEN "SP"
                 ELSE IF dice = 1 THEN "SF"
                 ELSE IF total >= dc THEN "S"
                 ELSE "F"
    IN  [choiceId |-> ai_choice.id, grade |-> grade, dice |-> dice,
         appliedStat |-> ai_choice.appliedStat, statValue |-> stat_value,
         modifier |-> modifier, total |-> total,
         characterId |-> ai_char.id, dc |-> dc]

\* A session of some difficulty with one autonomous character to judge.
JudgeInit ==
    /\ RoomAtRest
    /\ \E c \in AiCharacters, d \in Difficulties :
          call = [op |-> "to_judge", ai_character |-> c, difficulty |-> d]

\* handle_turn_resolution_with_ai, line 698 (multi mode)
SimulateAiTurn ==
    /\ call.op = "to_judge"
    /\ \E ai_choice \in ChoicesForRole, dice \in DiceValues :
          call' = [op |-> "simulate_ai",
                   ai_character |-> call.ai_character,
                   difficulty |-> call.difficulty,
                   ai_choice |-> ai_choice,
                   result |-> _simulate_ai_turn_result(call.ai_character,
                                                       ai_choice, dice,
                                                       call.difficulty)]
    /\ UNCHANGED room_vars

\* SingleGameProceedView.post, lines 503-525 (single mode)
SingleProceed ==
    /\ call.op = "to_judge"
    /\ \E ai_choice \in ChoicesForRole, dice \in DiceValues :
          call' = [op |-> "single_proceed",
                   ai_character |-> call.ai_character,
                   difficulty |-> call.difficulty,
                   ai_choice |-> ai_choice,
                   result |-> SingleProceedAiResult(call.ai_character,
                                                    ai_choice, dice)]
    /\ UNCHANGED room_vars

JudgeNext == SimulateAiTurn \/ SingleProceed

JudgeSpec == JudgeInit /\ [][JudgeNext]_vars

Judged == call.op \in {"simulate_ai", "single_proceed"}

\* ======================================================================
\* Merging the results of resolve_turn into a session
\* (gm_engine.py _normalize_result, apply_gm_result_to_state)
\* ======================================================================
Rope == [str |-> "rope"]
Dagger == [str |-> "dagger"]
GoldCoin == [str |-> "gold coin"]
Wand == [name |-> "wand"]
Light == [name |-> "light", charges |-> 3]
Torch == [name |-> "torch", charges |-> 1]

\* The sheets of member p1: a full one, one with notes only, one whose items
\* include a dict without charges, and none.
Sheets ==
    {[notes |-> "n1", hp |-> 5, status |-> <<"poisoned">>,
      items |-> <<Rope, Dagger>>, spells |-> <<Light>>],
     [notes |-> "n1"],
     [notes |-> "n1", hp |-> 5, items |-> <<Wand, Rope, Torch>>,
      spells |-> <<>>],
     EmptyDict}

Sheet2 ==
    [notes |-> "n2", hp |-> 7, status |-> <<>>, items |-> <<Rope>>,
     spells |-> <<Light>>]

Worlds == {EmptyDict, [location |-> "L1", time |-> "night"]}

\* Log entries: dicts, and a string, which is no log entry of the schema
Event0 == [events |-> "e0"]
Event1 == [events |-> "e1"]
Event2 == [events |-> "e2"]
Remark == [str |-> "remark"]

\* A session after its first turn: a log, a wound and cooldowns are stored
LaterSession ==
    [InitialGameState EXCEPT
        !.turn = 1,
        !.world = [location |-> "L1", time |-> "night"],
        !.log = <<Event0>>,
        !.party = <<[id |-> "p1", sheet |-> [notes |-> "n1", hp |-> 5,
                                             items |-> <<Rope>>,
                                             spells |-> <<>>]],
                    [id |-> "p2", sheet |-> Sheet2]>>,
        !.hurt_count = [p1 |-> 1],
        !.cooldowns = [p1 |-> [dash |-> 1, leap |-> 3]]]

MergeStates ==
    {[InitialGameState EXCEPT
         !.world = w,
         !.party = <<[id |-> "p1", sheet |-> sh], [id |-> "p2", sheet |-> Sheet2]>>]
       : w \in Worlds, sh \in Sheets}
      \cup {LaterSession}

\* Either no key k, or key k with a value of S
Opt(k, S) == {EmptyDict} \cup {[x \in {k} |-> v] : v \in S}

BaseRaw == [narration |-> "text"]

WorldDeltas ==
    {EmptyDict, [location |-> "L2"], [time |-> "dawn"],
     [location |-> "L2", notes |-> "w"]}

\* Raw results that speak of the world, the places and the log
WorldRaws ==
    {Update(Update(Update(BaseRaw, w), l), [shari |-> [update |-> Update(c, p)]])
       : w \in Opt("world", WorldDeltas),
         l \in Opt("log_append", {<<e>> : e \in LogEntries}),
         c \in Opt("currentLocation", {"L3"}),
         p \in Opt("previousLocation", {"L1"})}

DeltaIds == {"p1", "p2", "px"}

Changes ==
    [id : DeltaIds,
     changes : {[hp |-> -2], [status |-> <<"stunned", "poisoned">>],
                [hp |-> 3, status |-> <<"stunned">>]}]

PartyDeltas ==
    {<<>>} \cup {<<c>> : c \in Changes}
           \cup {<<c, d>> : c, d \in [id : DeltaIds, changes : {[hp |-> -2]}]}

\* Raw results that speak of the party
PartyRaws == {Update(BaseRaw, [party |-> ps]) : ps \in PartyDeltas}

Consumed ==
    Opt("consumed", {[p1 |-> <<"rope">>], [p1 |-> <<"wand", "light">>],
                     [px |-> <<"rope">>]})

Added ==
    Opt("added", {[p1 |-> <<GoldCoin>>], [p1 |-> <<GoldCoin, Torch>>],
                  [px |-> <<GoldCoin>>]})

Charges ==
    Opt("charges", {[p1 |-> [light |-> -1]], [p1 |-> [wand |-> -1]],
                    [p1 |-> [rope |-> 2, torch |-> -1]], [p2 |-> [light |-> -1]],
                    [px |-> [light |-> -1]]})

\* Raw results that speak of the inventories
InventoryRaws ==
    {Update(BaseRaw,
            [shari |-> [update |-> [inventory |-> Update(Update(c, a), ch)]]])
       : c \in Consumed, a \in Added, ch \in Charges}

\* Raw results that speak of wounds and cooldowns
OtherRaws ==
    {Update(BaseRaw, [shari |-> [update |-> Update(h, s)]])
       : h \in Opt("characterHurt",
                   {[p1 |-> TRUE], [p1 |-> FALSE], [p1 |-> TRUE, p2 |-> TRUE],
                    [px |-> TRUE]}),
         s \in Opt("skills",
                   {[cooldown |-> [p1 |-> [dash |-> 2]]],
                    [cooldown |-> [p1 |-> [leap |-> 0], p2 |-> [dash |-> 2]]],
                    [cooldown |-> [px |-> [dash |-> 2]]]})}

\* Raw results with several log entries
LogRaws ==
    {Update(BaseRaw, [log_append |-> q])
       : q \in {<<Event1, Event2>>, <<Event2, Event1>>, <<Remark, Event1>>}}

RawResults ==
    WorldRaws \cup PartyRaws \cup InventoryRaws \cup OtherRaws \cup LogRaws

\* A session whose turns are about to be resolved.
MergeInit ==
    /\ RoomAtRest
    /\ \E s \in MergeStates : call = [op |-> "session", n |-> 0, next |-> s]

\* resolve_turn returns the normalized result of the generator (line 572),
\* and the result is merged into the session (apply_gm_result_to_state).
ResolveAndMerge ==
    /\ call.op \in {"session", "merge"}
    /\ call.n < MaxMerges
    /\ \E raw \in RawResults :
          LET s == call.next
              result == _normalize_result(s, raw)
          IN  call' = [op |-> "merge", n |-> call.n + 1,
                       state |-> s, raw |-> raw, result |-> result,
                       next |-> apply_gm_result_to_state(s, result),
                       state_after |-> StateAfterApply(s, result),
                       result_after |-> ResultAfterApply(s, result)]
    /\ UNCHANGED room_vars

MergeNext == ResolveAndMerge

MergeSpec == MergeInit /\ [][MergeNext]_vars

MergedCall == call.op = "merge"

\* ======================================================================
\* resolve_turn after the generator has answered
\* (gm_engine.py AIGameMaster.resolve_turn, lines 535-571; _normalize_result;
\*  azure_image.py generate_scene_image)
\* ======================================================================
\* Raw results that speak to the players one by one
PersonalRaws ==
    {Update(BaseRaw, [personal |-> ps])
       : ps \in {[p1 |-> "you"], [p1 |-> "you", px |-> "they"]}}

Assessments ==
    {<<[player_id |-> "p1", win |-> FALSE]>>,
     <<[player_id |-> "px", win |-> TRUE], [player_id |-> "p2", win |-> FALSE]>>,
     <<[win |-> TRUE], [player_id |-> "", win |-> FALSE]>>}

Rolls == {<<[player_id |-> "p2", d6 |-> 5]>>, <<[player_id |-> "px", d6 |-> 1]>>}

\* Raw results that carry the engine's assessments and rolls
AssessRaws ==
    {Update(BaseRaw, [shari |-> Update(a, r)])
       : a \in Opt("assess", Assessments), r \in Opt("rolls", Rolls)}

NormalizeRaws == RawResults \cup PersonalRaws \cup AssessRaws \cup {EmptyDict}

\* How the scene-image step ends: it is switched off (IMAGE_GEN_ENABLED),
\* the generator answers ok with a url or with no data, answers not ok, or
\* building the prompt or the call raises.
ImageOutcomes ==
    {"disabled", "ok", "ok_no_data", "not_ok", "prompt_raised", "call_raised"}

ImageFailed(outcome) == outcome \in {"not_ok", "prompt_raised", "call_raised"}

\* lines 554-570: the image field for one outcome of the step
ImageField(outcome) ==
    CASE outcome = "ok" -> [url |-> "url1", prompt |-> "styled"]
      [] outcome = "ok_no_data" -> [url |-> NoVal, prompt |-> "styled"]
      [] outcome = "not_ok" ->
            [url |-> NoVal, error |-> "err", prompt |-> "styled"]
      [] OTHER -> [url |-> NoVal, error |-> "err"]

\* A failure of the image step empties the result of the turn.
resolve_turn_ImageFailureDropsResult(s, raw, outcome) ==
    LET result == _normalize_result(s, raw)
    IN  IF outcome = "disabled" THEN result
        ELSE IF ImageFailed(outcome)
        THEN Put(_normalize_result(s, EmptyDict), "image", ImageField(outcome))
        ELSE Put(result, "image", ImageField(outcome))

\* lines 541-571, for the parsed output of the generator
resolve_turn(s, raw, outcome) ==
    LET result == _normalize_result(s, raw)
    IN  IF outcome = "disabled" THEN result
        ELSE Put(result, "image", ImageField(outcome))

\* A session whose generator is about to be asked.
ResolveInit ==
    /\ RoomAtRest
    /\ \E s \in MergeStates : call = [op |-> "to_resolve", state |-> s]

\* lines 535-571: the answer is parsed, normalized and illustrated
ResolveTurn ==
    /\ call.op = "to_resolve"
    /\ \E raw \in NormalizeRaws, outcome \in ImageOutcomes :
          call' = [op |-> "resolve_turn", state |-> call.state, raw |-> raw,
                   image_step |-> outcome,
                   normalized |-> _normalize_result(call.state, raw),
                   result |-> resolve_turn(call.state, raw, outcome)]
    /\ UNCHANGED room_vars

\* lines 535-539: the answer holds no JSON; resolve_turn raises
ResolveTurnRaises ==
    /\ call.op = "to_resolve"
    /\ call' = [op |-> "resolve_turn_raised", state |-> call.state]
    /\ UNCHANGED room_vars

ResolveNext == ResolveTurn \/ ResolveTurnRaises

ResolveSpec == ResolveInit /\ [][ResolveNext]_vars

Resolved == call.op = "resolve_turn"

\* ======================================================================
\* The contributions handed to the narrative generator
\* (consumers.py handle_turn_resolution_with_ai, lines 671-703)
\* ======================================================================
Attack == [id |-> 0, text |-> "attack", appliedStat |-> "str", modifier |-> 0]
Sneak == [id |-> 1, text |-> "sneak", appliedStat |-> "dex", modifier |-> 3]

\* current_scene['round']['choices']: the actions of the scene by role; in
\* the second scene role r3 has none.
SceneChoices ==
    {[r1 |-> <<Attack, Sneak>>, r2 |-> <<Attack, Sneak>>, r3 |-> <<Attack, Sneak>>],
     [r1 |-> <<Attack, Sneak>>, r2 |-> <<Attack, Sneak>>]}

all_characters ==
    <<[id |-> "c1", role_id |-> "r1", stats |-> [str |-> 2]],
      [id |-> "c2", role_id |-> "r2", stats |-> [dex |-> 9]],
      [id |-> "c3", role_id |-> "r3", stats |-> EmptyDict]>>

CharacterIds == {all_characters[i].id : i \in 1 .. Len(all_characters)}

\* What the players of c1, or of c1 and c2, submitted
HumanResults ==
    {<<[characterId |-> "c1", role |-> "r1", choiceId |-> i]>> : i \in {0, 1}}
      \cup {<<[characterId |-> "c1", role |-> "r1", choiceId |-> i],
              [characterId |-> "c2", role |-> "r2", choiceId |-> j]>>
               : i, j \in {0, 1}}

ContributionDice == {1, 10, 20}

\* What random.choice (lines 692 and 594) and random.randint (line 595)
\* return for one character: positions in choices_for_role, and the dice
AiPicks == [random_choice : {1, 2}, ai_choice : {1, 2}, dice : ContributionDice]

\* lines 676-680: the text of the choice a player submitted
ChoiceText(scene_choices_data, res) ==
    LET cs == Get(scene_choices_data, res.role, <<>>)
        hits == {i \in 1 .. Len(cs) : cs[i].id = res.choiceId}
    IN  IF hits = {} THEN "unknown action"
        ELSE cs[CHOOSE i \in hits : \A j \in hits : i <= j].text

\* lines 671-695: characterId -> the text sent to the narrative generator
ShariChoices(scene_choices_data, human_player_results, picks) ==
    LET human_char_ids == {human_player_results[i].characterId
                             : i \in 1 .. Len(human_player_results)}
    IN  [cid \in CharacterIds |->
            IF cid \in human_char_ids
            THEN LET res == CHOOSE r \in SeqToSet(human_player_results) :
                                r.characterId = cid
                 IN  ChoiceText(scene_choices_data, res)
            ELSE LET ai_char == CHOOSE c \in SeqToSet(all_characters) : c.id = cid
                     choices_for_role ==
                         Get(scene_choices_data, ai_char.role_id, <<>>)
                 IN  IF choices_for_role # <<>>
                     THEN choices_for_role[picks[cid].random_choice].text
                     ELSE "watches"]

\* The judgement is made of the action whose text was sent.
AiPlayerResults_SamePick(scene_choices_data, human_player_results, picks, difficulty) ==
    LET human_char_ids == {human_player_results[i].characterId
                             : i \in 1 .. Len(human_player_results)}
        judged == SelectSeq(all_characters,
                      LAMBDA c : /\ c.id \notin human_char_ids
                                 /\ Get(scene_choices_data, c.role_id, <<>>) # <<>>)
    IN  [i \in 1 .. Len(judged) |->
            _simulate_ai_turn_result(
                judged[i],
                scene_choices_data[judged[i].role_id][picks[judged[i].id].random_choice],
                picks[judged[i].id].dice, difficulty)]

\* lines 682-700: the judged results of the characters without a human; a
\* character whose role has no action gets none (lines 591-592, 699)
AiPlayerResults(scene_choices_data, human_player_results, picks, difficulty) ==
    LET human_char_ids == {human_player_results[i].characterId
                             : i \in 1 .. Len(human_player_results)}
        judged == SelectSeq(all_characters,
                      LAMBDA c : /\ c.id \notin human_char_ids
                                 /\ Get(scene_choices_data, c.role_id, <<>>) # <<>>)
    IN  [i \in 1 .. Len(judged) |->
            _simulate_ai_turn_result(
                judged[i],
                scene_choices_data[judged[i].role_id][picks[judged[i].id].ai_choice],
                picks[judged[i].id].dice, difficulty)]

\* A complete turn whose resolution is about to prepare the generator call.
ContributionInit ==
    /\ RoomAtRest
    /\ \E sc \in SceneChoices, hr \in HumanResults :
          call = [op |-> "to_contribute", scene_choices_data |-> sc,
                  human_player_results |-> hr]

\* lines 671-703
BuildContributions ==
    /\ call.op = "to_contribute"
    /\ \E picks \in [CharacterIds -> AiPicks] :
          LET sc == call.scene_choices_data
              hr == call.human_player_results
              ai == AiPlayerResults(sc, hr, picks, "beginner")
          IN  call' = [op |-> "contributions", scene_choices_data |-> sc,
                       human_player_results |-> hr,
                       shari_choices |-> ShariChoices(sc, hr, picks),
                       ai_player_results |-> ai,
                       all_player_results |-> hr \o ai]
    /\ UNCHANGED room_vars

ContributionNext == BuildContributions

ContributionSpec == ContributionInit /\ [][ContributionNext]_vars

Contributed == call.op = "contributions"

\* ======================================================================
\* Getting ready for the next scene
\* (consumers.py handle_ready_for_next_scene, ask_llm_for_scene_json)
\* ======================================================================
\* The set of ready users of a room, one member per user id.
set_user_ready_for_next_scene(ready, uid) == ready \cup {uid}

get_ready_users_for_next_scene(ready) == ready

clear_ready_users_for_next_scene(ready) == {}

\* A room in play whose scene is on the table.
ReadyInit ==
    /\ active = Users
    /\ room_status = "play"
    /\ turn_results = {}
    /\ game_state = InitialGameState
    /\ pc = [h \in Users |-> "idle"]
    /\ player_result = [h \in Users |-> NoVal]
    /\ active_ids = [h \in Users |-> {}]
    /\ human_results = [h \in Users |-> {}]
    /\ state = [h \in Users |-> NoState]
    /\ ready_users = {}
    /\ ready_users_set = [h \in Users |-> {}]
    /\ call = NoCall

\* handle_ready_for_next_scene, line 798
SetUserReady(h) ==
    /\ pc[h] = "idle"
    /\ ready_users' = set_user_ready_for_next_scene(ready_users, h)
    /\ pc' = [pc EXCEPT ![h] = "ready_get"]
    /\ UNCHANGED <<call, active, room_status, turn_results, game_state,
                   player_result, active_ids, human_results, state,
                   ready_users_set>>

\* line 799
GetReadyUsers(h) ==
    /\ pc[h] = "ready_get"
    /\ ready_users_set' = [ready_users_set EXCEPT
                              ![h] = get_ready_users_for_next_scene(ready_users)]
    /\ pc' = [pc EXCEPT ![h] = "ready_active"]
    /\ UNCHANGED <<call, active, room_status, turn_results, game_state,
                   player_result, active_ids, human_results, state,
                   ready_users>>

\* lines 803-804
GetActiveParticipants(h) ==
    /\ pc[h] = "ready_active"
    /\ active_ids' = [active_ids EXCEPT ![h] = active]
    /\ pc' = [pc EXCEPT ![h] = "ready_check"]
    /\ UNCHANGED <<call, active, room_status, turn_results, game_state,
                   player_result, human_results, state,
                   ready_users, ready_users_set>>

\* lines 807-814: the ready state is broadcast, then the sets read are compared
CheckAllReady(h) ==
    /\ pc[h] = "ready_check"
    /\ pc' = [pc EXCEPT ![h] = IF active_ids[h] \subseteq ready_users_set[h]
                                THEN "ready_generate" ELSE "idle"]
    /\ active_ids' = [active_ids EXCEPT ![h] = {}]
    /\ ready_users_set' = [ready_users_set EXCEPT ![h] = {}]
    /\ UNCHANGED <<call, active, room_status, turn_results, game_state,
                   player_result, human_results, state, ready_users>>

\* lines 839 and 953-971: the scene is generated and stored as current scene
SceneGenerated(h) ==
    /\ pc[h] = "ready_generate"
    /\ game_state.current_scene < MaxScene
    /\ game_state' = [game_state EXCEPT !.current_scene = @ + 1]
    /\ pc' = [pc EXCEPT ![h] = "ready_clear"]
    /\ UNCHANGED <<call, active, room_status, turn_results,
                   player_result, active_ids, human_results, state,
                   ready_users, ready_users_set>>

\* The ready marks are dropped when the generation fails, too.
SceneFailed_ClearsReady(h) ==
    /\ pc[h] = "ready_generate"
    /\ ready_users' = clear_ready_users_for_next_scene(ready_users)
    /\ pc' = [pc EXCEPT ![h] = "idle"]
    /\ UNCHANGED <<call, active, room_status, turn_results, game_state,
                   player_result, active_ids, human_results, state,
                   ready_users_set>>

\* lines 972-976 and 841: ask_llm_for_scene_json returns None
SceneFailed(h) ==
    /\ pc[h] = "ready_generate"
    /\ pc' = [pc EXCEPT ![h] = "idle"]
    /\ UNCHANGED <<call, active, room_status, turn_results, game_state,
                   player_result, active_ids, human_results, state,
                   ready_users, ready_users_set>>

\* lines 846-851: scene_update is broadcast and the ready users are cleared
ClearReadyUsers(h) ==
    /\ pc[h] = "ready_clear"
    /\ ready_users' = clear_ready_users_for_next_scene(ready_users)
    /\ pc' = [pc EXCEPT ![h] = "idle"]
    /\ UNCHANGED <<call, active, room_status, turn_results, game_state,
                   player_result, active_ids, human_results, state,
                   ready_users_set>>

ReadyStep(h) ==
    \/ SetUserReady(h)
    \/ GetReadyUsers(h)
    \/ GetActiveParticipants(h)
    \/ CheckAllReady(h)
    \/ SceneGenerated(h)
    \/ SceneFailed(h)
    \/ ClearReadyUsers(h)

ReadyNext ==
    \/ \E u \in Users : JoinRoom(u)
    \/ \E u \in Users : LeaveRoom(u)
    \/ \E h \in Users : ReadyStep(h)

ReadySpec == ReadyInit /\ [][ReadyNext]_vars

\* ======================================================================
\* Properties
\* ======================================================================
StepOf(h) == pc'[h] # pc[h]

TypeOK ==
    /\ active \subseteq Users
    /\ room_status \in {"play", "waiting", "finish"}
    /\ turn_results \subseteq (Users \X Choices)
    /\ TurnOf(game_state) \in 0 .. MaxTurn
    /\ pc \in [Users -> {"idle", "get_active", "check", "turn_waiting",
                         "resolve", "calling"} \cup Returned]

\* C1: for one room at most one turn resolution is in flight at any time: once
\* a handler has found the turn complete and entered
\* handle_turn_resolution_with_ai, no other handler of the room does so until
\* the first has returned (a redundant trigger is dropped).
C1_SingleFlight ==
    Cardinality({h \in Users : InFlight(h)}) <= 1

\* C2: when a resolution attempt fails (resolve_turn raised, timed out or
\* returned unparseable output), the contributions of that turn are still
\* stored once the handler has returned, so the turn can be retried without
\* resubmission.
C2_ContributionsKeptOnFailure ==
    [][\A h \in Users :
          (pc[h] = "ret_error" /\ pc'[h] = "idle")
              => human_results[h] \subseteq turn_results']_vars

\* C3: the turn number never decreases and each committed merge raises the
\* stored turn by exactly 1 over the value stored just before the commit, in
\* every execution of concurrent handlers on one room.
C3_TurnMonotone ==
    [][/\ TurnOf(game_state') >= TurnOf(game_state)
       /\ \A h \in Users :
             (pc[h] = "calling" /\ pc'[h] = "ret_resolved")
                 => TurnOf(game_state') = TurnOf(game_state) + 1]_vars

\* C4: when resolve_turn raises, the handler changes nothing of the stored
\* session state on its way out: neither the step that catches the error nor
\* any later step of that handler writes turn, world or log.
C4_NoMutationOnFailure ==
    [][\A h \in Users :
          (StepOf(h) /\ (pc'[h] = "ret_error" \/ pc[h] = "ret_error"))
              => game_state' = game_state]_vars

C4_Witness ==
    \E h \in Users :
        /\ pc[h] = "ret_error"
        /\ human_results[h] # {}
        /\ TurnOf(game_state) > 0

\* C5: a contribution submitted while a resolution is in flight is not part of
\* the in-flight turn's results and is not deleted by that resolution's clear
\* of the contribution store.
C5_LateContributionKept ==
    [][\A h \in Users :
          /\ (InFlight(h) /\ pc'[h] \in {"resolve", "calling"})
                 => human_results'[h] = human_results[h]
          /\ (pc[h] \in Returned /\ pc'[h] = "idle")
                 => (turn_results \ human_results[h]) \subseteq turn_results']_vars

C7_TerminalForGood ==
    [][room_status = "waiting"
          => /\ game_state' = game_state
             /\ \A h \in Users :
                   /\ pc[h] = "idle" => pc'[h] = "idle"
                   /\ pc'[h] = "calling" => pc[h] = "calling"]_vars

\* C8: a second contribution of the same participant replaces the first: the
\* store never holds two entries of one participant, and after a submission
\* the participant's entry is the submitted result while the entries of the
\* other participants are as before.
C8_LastSubmissionWins ==
    [][/\ \A p, q \in turn_results' : p[1] = q[1] => p = q
       /\ \A h \in Users :
             (pc[h] = "idle" /\ pc'[h] = "get_active")
                 => /\ {p \in turn_results' : p[1] = h}
                           = {<<h, player_result'[h]>>}
                    /\ {p \in turn_results' : p[1] # h}
                           = {p \in turn_results : p[1] # h}]_vars

C8_Witness ==
    \E h, g \in Users :
        /\ h # g
        /\ pc[h] = "get_active"
        /\ player_result[h] = "B"
        /\ <<h, "B">> \in turn_results
        /\ <<h, "A">> \in human_results[g]

\* C9: the stored contributions never have more entries than the active
\* participant set has members, and hold no entry of a user who is not an
\* active participant of the room.
C9_NoForeignContributions ==
    /\ Cardinality(Keys(turn_results)) <= Cardinality(active)
    /\ Keys(turn_results) \subseteq active

\* C10: when a participant leaves while every remaining active participant
\* has a stored contribution, the turn becomes complete and is resolved without
\* any new submission: the leave leaves a handler at work that resolves the
\* turn (only a handler past its store can do so without a new submission).
TurnComplete == active # {} /\ active \subseteq Keys(turn_results)

C10_LeaveCompletesTurn ==
    [][\A u \in Users :
          (u \in active /\ active' = active \ {u} /\ TurnComplete')
              => \E h \in Users :
                    pc'[h] \in {"get_active", "check", "resolve", "calling"}]_vars

\* C11: a handler that finds the turn incomplete changes nothing but its own
\* user's stored contribution: on the steps of the waiting path (store, read
\* of the active set, check, turn_waiting broadcast) the session record, the
\* room and the other users' contributions are unchanged, the store is written
\* by the storing step only, no results are handed to the resolution, and the
\* broadcast is followed by the end of the handler, never by the narrative
\* generator.
OnWaitingPath(h) ==
    \/ pc[h] = "idle" /\ pc'[h] = "get_active"
    \/ pc[h] = "get_active" /\ pc'[h] = "check"
    \/ pc[h] = "check" /\ pc'[h] = "turn_waiting"
    \/ pc[h] = "turn_waiting" /\ StepOf(h)

Failed(h) == pc[h] = "ret_error"

Merged == \E g \in Users : pc[g] = "ret_resolved"

C12_InteractiveAfterFailure ==
    /\ [][\A h \in Users :
             (Failed(h) /\ StepOf(h))
                 => /\ pc'[h] = "idle"
                    /\ TurnOf(game_state') = TurnOf(game_state)]_vars
    /\ ((\E h \in Users : Failed(h)) /\ ~Merged /\ TurnOf(game_state) < MaxTurn)
          ~> Merged

C12_Witness ==
    \E h \in Users :
        /\ Failed(h)
        /\ ~Merged
        /\ TurnOf(game_state) = 1
        /\ active = Users
        /\ Keys(human_results[h]) = Users

\* C13: a contribution sent by a user who is not an active participant of the
\* room is rejected: the step of the handler that takes the message leaves the
\* stored contributions as they were (nothing is stored, nothing could count
\* toward completeness or reach the generator).
C13_UnknownParticipantRejected ==
    [][\A h \in Users :
          (pc[h] = "idle" /\ StepOf(h) /\ h \notin active)
              => turn_results' = turn_results]_vars

\* C14: every judgement has total = dice + statValue + modifier, with the dice
\* in 1..20, the modifier of the chosen action and statValue 0 when the actor
\* has no value for the applied stat, and its grade follows the priority rule:
\* dice 20 is a critical success (SP), dice 1 a critical failure (SF),
\* otherwise success (S) iff total >= dc and failure (F) otherwise.
HasNoStat(character, stat) ==
    /\ stat \notin DOMAIN Get(character, "stats", EmptyDict)
    /\ stat \notin DOMAIN Get(Get(character, "ability", EmptyDict),
                              "stats", EmptyDict)

C14_JudgementRule ==
    Judged =>
        LET r == call.result
        IN  /\ r.dice \in 1 .. 20
            /\ r.modifier = call.ai_choice.modifier
            /\ r.total = r.dice + r.statValue + r.modifier
            /\ HasNoStat(call.ai_character, call.ai_choice.appliedStat)
                   => r.statValue = 0
            /\ ("stats" \in DOMAIN call.ai_character
                    /\ call.ai_choice.appliedStat \in DOMAIN call.ai_character.stats)
                   => r.statValue
                          = call.ai_character.stats[call.ai_choice.appliedStat]
            /\ r.grade = (IF r.dice = 20 THEN "SP"
                          ELSE IF r.dice = 1 THEN "SF"
                          ELSE IF r.total >= r.dc THEN "S"
                          ELSE "F")

\* a natural 20 with a total below the dc, judged a critical success
C14_Witness ==
    /\ call.op = "simulate_ai"
    /\ call.result.dice = 20
    /\ call.result.statValue = 0
    /\ call.result.total = 18
    /\ call.result.dc = 16
    /\ call.result.grade = "SP"

\* C15: in every path that judges an actor the difficulty class is the one of
\* the session's difficulty tier: 10 for beginner, 13 for intermediate, 16 for
\* advanced, and 10 for any other tier.
C15_DcFromDifficulty ==
    Judged =>
        call.result.dc = (CASE call.difficulty = "beginner" -> 10
                            [] call.difficulty = "intermediate" -> 13
                            [] call.difficulty = "advanced" -> 16
                            [] OTHER -> 10)

\* C16: apply_gm_result_to_state is pure: after the call the input state and
\* the input result (its party deltas, item entries and log entries included)
\* are equal to their values before the call.
C16_MergeIsPure ==
    MergedCall =>
        /\ call.state_after = call.state
        /\ call.result_after = call.result

\* C17: for a normalized result, every key of the result's world delta has the
\* delta's value in the next state's world, and every other world key is as it
\* was in the state's world (present with the same value, or absent).
C17_WorldShallowMerge ==
    MergedCall =>
        LET delta == call.result.world
            old == call.state.world
            new == call.next.world
        IN  /\ \A k \in DOMAIN delta : k \in DOMAIN new /\ new[k] = delta[k]
            /\ \A k \in (DOMAIN old \cup DOMAIN new) \ DOMAIN delta :
                  k \in DOMAIN old /\ k \in DOMAIN new /\ new[k] = old[k]

\* C18: a party delta that names a member adds its hp to the member's hp (a
\* missing hp counting as 0) and joins its status to the member's status; every
\* other field of the sheet, and every sheet of a member that no delta names,
\* is unchanged (items and spells are left to the inventory deltas).
RECURSIVE SumHp(_, _)
SumHp(changes, pid) ==
    IF changes = <<>> THEN 0
    ELSE (IF Head(changes).id = pid /\ "hp" \in DOMAIN Head(changes).changes
          THEN Head(changes).changes.hp ELSE 0) + SumHp(Tail(changes), pid)

SameKey(d, e, k) ==
    (k \in DOMAIN d <=> k \in DOMAIN e) /\ (k \in DOMAIN d => d[k] = e[k])

InventoryNames(result, pid) ==
    LET inv == result.shari.update.inventory
    IN  pid \in DOMAIN inv.consumed \cup DOMAIN inv.added \cup DOMAIN inv.charges

C18_PartyDeltas ==
    MergedCall =>
        /\ Len(call.next.party) = Len(call.state.party)
        /\ \A i \in 1 .. Len(call.state.party) :
              LET pid == call.state.party[i].id
                  old == call.state.party[i].sheet
                  new == call.next.party[i].sheet
                  deltas == SelectSeq(call.result.party, LAMBDA c : c.id = pid)
                  hps == {j \in 1 .. Len(deltas) : "hp" \in DOMAIN deltas[j].changes}
                  sts == {j \in 1 .. Len(deltas) :
                              "status" \in DOMAIN deltas[j].changes}
              IN  /\ call.next.party[i].id = pid
                  /\ IF hps # {}
                     THEN "hp" \in DOMAIN new
                          /\ new.hp = Get(old, "hp", 0) + SumHp(deltas, pid)
                     ELSE SameKey(old, new, "hp")
                  /\ IF sts # {}
                     THEN "status" \in DOMAIN new
                          /\ SeqToSet(new.status)
                                = SeqToSet(Get(old, "status", <<>>))
                                    \cup UNION {SeqToSet(deltas[j].changes.status)
                                                  : j \in sts}
                     ELSE SameKey(old, new, "status")
                  /\ \A k \in (DOMAIN old \cup DOMAIN new)
                                 \ {"hp", "status", "items", "spells"} :
                        SameKey(old, new, k)
                  /\ ~InventoryNames(call.result, pid)
                        => SameKey(old, new, "items") /\ SameKey(old, new, "spells")

\* p1, poisoned with hp 5, is healed by 3 and stunned; p2 is not named
C18_Witness ==
    /\ MergedCall
    /\ call.state.party[1].sheet = [notes |-> "n1", hp |-> 5,
                                    status |-> <<"poisoned">>,
                                    items |-> <<Rope, Dagger>>,
                                    spells |-> <<Light>>]
    /\ call.result.party = <<[id |-> "p1",
                              changes |-> [hp |-> 3, status |-> <<"stunned">>]]>>
    /\ call.next.party[1].sheet.hp = 8
    /\ SeqToSet(call.next.party[1].sheet.status) = {"poisoned", "stunned"}
    /\ call.next.party[2].sheet = Sheet2

\* C19: consumed[memberId] removes from the member's items and spells exactly
\* the entries whose name is a consumed name and keeps the others in their
\* order; added[memberId] appends the listed items, in order, at the end of the
\* items; the inventory of a member that is not named is unchanged.  (Where a
\* charges delta names the member too, the entries are compared by name.)
Names(lst) == [i \in 1 .. Len(lst) |-> ItemName(lst[i])]

C19_ConsumedAndAdded ==
    MergedCall =>
        \A i \in 1 .. Len(call.state.party) :
            LET pid == call.state.party[i].id
                inv == call.result.shari.update.inventory
                old == call.state.party[i].sheet
                new == call.next.party[i].sheet
                gone == IF pid \in DOMAIN inv.consumed
                        THEN SeqToSet(inv.consumed[pid]) ELSE {}
                got == IF pid \in DOMAIN inv.added THEN inv.added[pid] ELSE <<>>
                items == SelectSeq(Get(old, "items", <<>>),
                                   LAMBDA it : ItemName(it) \notin gone) \o got
                spells == SelectSeq(Get(old, "spells", <<>>),
                                    LAMBDA it : ItemName(it) \notin gone)
            IN  IF ~InventoryNames(call.result, pid)
                THEN SameKey(old, new, "items") /\ SameKey(old, new, "spells")
                ELSE IF pid \in DOMAIN inv.charges
                THEN /\ Names(new.items) = Names(items)
                     /\ Names(new.spells) = Names(spells)
                ELSE /\ new.items = items
                     /\ new.spells = spells

\* items [rope, dagger] with rope consumed and gold coin added
C19_Witness ==
    /\ MergedCall
    /\ Get(call.state.party[1].sheet, "items", <<>>) = <<Rope, Dagger>>
    /\ call.result.shari.update.inventory.consumed = [p1 |-> <<"rope">>]
    /\ call.result.shari.update.inventory.added = [p1 |-> <<GoldCoin>>]
    /\ call.next.party[1].sheet.items = <<Dagger, GoldCoin>>
    /\ call.next.party[1].sheet.spells = <<Light>>
    /\ call.next.party[2].sheet.items = <<Rope>>

\* C20: charges[memberId][itemName] adds the delta to the charges of the
\* member's items and spells of that name that carry a charges field, all
\* their other fields unchanged; an entry of that name without a charges
\* field, and every other entry, is left as it is, so that the merge is a
\* no-op on the inventory when no entry of that name carries charges.
ChargedAsClaimed(lst, name_delta) ==
    [i \in 1 .. Len(lst) |->
        IF /\ IsDict(lst[i])
           /\ ItemName(lst[i]) \in DOMAIN name_delta
           /\ "charges" \in DOMAIN lst[i]
        THEN [lst[i] EXCEPT !.charges = @ + name_delta[ItemName(lst[i])]]
        ELSE lst[i]]

C20_ChargesOnlyWherePresent ==
    MergedCall =>
        \A i \in 1 .. Len(call.state.party) :
            LET pid == call.state.party[i].id
                inv == call.result.shari.update.inventory
                old == call.state.party[i].sheet
                new == call.next.party[i].sheet
            IN  (pid \in DOMAIN inv.charges
                    /\ pid \notin DOMAIN inv.consumed \cup DOMAIN inv.added)
                    => /\ new.items = ChargedAsClaimed(Get(old, "items", <<>>),
                                                       inv.charges[pid])
                       /\ new.spells = ChargedAsClaimed(Get(old, "spells", <<>>),
                                                        inv.charges[pid])

\* C21: skillCooldownDelta[memberId][skillName] = turns sets the stored
\* counter of that skill to turns whatever it was before (merging the same
\* delta again leaves the same counters), every counter the delta does not
\* name is kept, no other counter appears, and the counters are kept in the
\* session's cooldowns, not in the party sheets: the party is what it would
\* be without the cooldown delta.
WithoutCooldown(result) ==
    Put(result, "shari",
        Put(result.shari, "update",
            Put(result.shari.update, "skills",
                Put(result.shari.update.skills, "cooldown", EmptyDict))))

Counters(cdstore) ==
    UNION {{<<pid, sname>> : sname \in DOMAIN cdstore[pid]}
             : pid \in DOMAIN cdstore}

C21_CooldownSets ==
    MergedCall =>
        LET cooldown == call.result.shari.update.skills.cooldown
            old == call.state.cooldowns
            new == call.next.cooldowns
        IN  /\ \A c \in Counters(cooldown) :
                  c \in Counters(new) /\ new[c[1]][c[2]] = cooldown[c[1]][c[2]]
            /\ \A c \in Counters(old) \ Counters(cooldown) :
                  c \in Counters(new) /\ new[c[1]][c[2]] = old[c[1]][c[2]]
            /\ Counters(new) = Counters(old) \cup Counters(cooldown)
            /\ apply_gm_result_to_state(call.next, call.result).cooldowns = new
            /\ call.next.party
                  = apply_gm_result_to_state(call.state,
                                             WithoutCooldown(call.result)).party

\* dash on cooldown 1 and leap on 3; the delta sets dash to 2
C21_Witness ==
    /\ MergedCall
    /\ call.state.cooldowns = [p1 |-> [dash |-> 1, leap |-> 3]]
    /\ call.result.shari.update.skills.cooldown = [p1 |-> [dash |-> 2]]
    /\ call.next.cooldowns = [p1 |-> [dash |-> 2, leap |-> 3]]
    /\ call.next.party = call.state.party

\* C22: a merge raises a member's cumulative hurt counter by exactly 1 when
\* the result marks the member hurt and leaves it as it was otherwise, so the
\* counter never decreases and counts the merged results that marked the
\* member; and the counter changes no hp, status or membership: the party
\* is what it would be without the hurt marks.
WithoutHurt(result) ==
    Put(result, "shari",
        Put(result.shari, "update",
            Put(result.shari.update, "characterHurt", EmptyDict)))

MarkedHurt(result, pid) ==
    LET churt == result.shari.update.characterHurt
    IN  pid \in DOMAIN churt /\ churt[pid]

IsPrefix(p, q) == Len(p) <= Len(q) /\ SubSeq(q, 1, Len(p)) = p

MemberIds(s) == [i \in 1 .. Len(s.party) |-> s.party[i].id]

C24_NoForeignMember ==
    MergedCall =>
        /\ MemberIds(call.next) = MemberIds(call.state)
        /\ DOMAIN call.next.hurt_count \subseteq party_ids(call.next)
        /\ DOMAIN call.next.cooldowns \subseteq party_ids(call.next)

\* C25: _normalize_result gives every absent field a safe default and keeps
\* every value the generator supplied: personal has an entry for every party
\* id of the state (the generator's text where supplied, "" otherwise), world
\* is the state's world when absent, narration, party, log_append, the
\* inventory maps and the cooldown map exist and are empty when absent; and
\* normalizing a normalized result changes nothing.
DefaultsGiven(s, raw, r) ==
    LET shari == Get(raw, "shari", EmptyDict)
        upd == Get(shari, "update", EmptyDict)
        inv == Get(upd, "inventory", EmptyDict)
        skl == Get(upd, "skills", EmptyDict)
    IN  /\ \A pid \in party_ids(s) :
              /\ pid \in DOMAIN r.personal
              /\ r.personal[pid] = Get(Get(raw, "personal", EmptyDict), pid, "")
        /\ r.world = Get(raw, "world", s.world)
        /\ r.narration = Get(raw, "narration", "")
        /\ r.party = Get(raw, "party", <<>>)
        /\ r.log_append = Get(raw, "log_append", <<>>)
        /\ \A k \in {"consumed", "added", "charges"} :
              r.shari.update.inventory[k] = Get(inv, k, EmptyDict)
        /\ r.shari.update.skills.cooldown = Get(skl, "cooldown", EmptyDict)

\* Every key of d has in e the value it has in d, the keys of Inner aside.
KeptBut(d, e, Inner) ==
    \A k \in DOMAIN d \ Inner : k \in DOMAIN e /\ e[k] = d[k]

SuppliedKept(raw, r, Sections) ==
    LET shari == Get(raw, "shari", EmptyDict)
        upd == Get(shari, "update", EmptyDict)
    IN  /\ KeptBut(raw, r, {"shari", "personal"})
        /\ KeptBut(Get(raw, "personal", EmptyDict), r.personal, {})
        /\ KeptBut(shari, r.shari, {"update"} \cup Sections)
        /\ KeptBut(upd, r.shari.update, {"inventory", "skills"})
        /\ KeptBut(Get(upd, "inventory", EmptyDict), r.shari.update.inventory, {})
        /\ KeptBut(Get(upd, "skills", EmptyDict), r.shari.update.skills, {})

WithoutImage(r) == [k \in DOMAIN r \ {"image"} |-> r[k]]

C26_ImageFailureKeepsTurn ==
    (Resolved /\ ImageFailed(call.image_step)) =>
        /\ WithoutImage(call.result) = call.normalized
        /\ call.result
              = Put(resolve_turn(call.state, call.raw, "disabled"),
                    "image", call.result.image)
        /\ call.result.image.url = NoVal

\* the image call raises after the generator changed the world and hurt p1
C26_Witness ==
    /\ Resolved
    /\ call.image_step = "call_raised"
    /\ call.raw = [narration |-> "text",
                    shari |-> [update |-> [characterHurt |-> [p1 |-> TRUE]]]]
    /\ call.result.narration = "text"
    /\ call.result.shari.update.characterHurt = [p1 |-> TRUE]
    /\ call.result.image = [url |-> NoVal, error |-> "err"]

\* C27: a turn merge is computed from the session record as it is stored
\* immediately before the merge's write: the record the handler read at the
\* start of its resolution is still the stored one when the handler writes, so
\* that no write another handler of the room committed in between is lost.
C27_MergeFromLatestRecord ==
    [][\A h \in Users :
          (pc[h] = "calling" /\ pc'[h] = "ret_resolved")
              => state[h] = game_state]_vars

\* C28: at the generator call the contributions cover every character of the
\* scene exactly once: each human character has the action it submitted, and
\* each character without a human (whose role has actions in the scene) has
\* exactly one judged result, of an action of its role, and that action is
\* the one whose text is sent to the narrative generator.
C28_OneActionPerCharacter ==
    Contributed =>
        LET sc == call.scene_choices_data
            hr == call.human_player_results
            human_char_ids == {hr[i].characterId : i \in 1 .. Len(hr)}
        IN  /\ DOMAIN call.shari_choices = CharacterIds
            /\ \A i \in 1 .. Len(hr) :
                  call.shari_choices[hr[i].characterId] = ChoiceText(sc, hr[i])
            /\ \A c \in SeqToSet(all_characters) :
                  (c.id \notin human_char_ids /\ Get(sc, c.role_id, <<>>) # <<>>)
                      => LET rs == {i \in 1 .. Len(call.ai_player_results) :
                                       call.ai_player_results[i].characterId = c.id}
                         IN  /\ Cardinality(rs) = 1
                             /\ \A i \in rs :
                                   \E a \in SeqToSet(sc[c.role_id]) :
                                       /\ a.id = call.ai_player_results[i].choiceId
                                       /\ a.text = call.shari_choices[c.id]

\* C29: when a resolution ends the game, the stored session record is
\* destroyed: once the game_over handling is done, a read of the record finds
\* it absent (no current scene and no turn are left to read).
C29_StateDestroyedAtGameOver ==
    [][\A h \in Users :
          (pc[h] = "calling" /\ pc'[h] = "ret_game_over")
              => /\ game_state'.current_scene = Absent
                 /\ game_state'.turn = Absent]_vars

\* C30: handle_ready_for_next_scene generates the next scene only when, at the
\* moment of its check, every active participant of the room is in the ready
\* set; the ready set is cleared exactly when a scene was generated and
\* broadcast, and is kept unchanged when the scene generation fails.
ReadyCleared == ready_users # {} /\ ready_users' = {}

ClearedOnlyAfterScene ==
    /\ \A h \in Users :
          /\ (pc[h] = "ready_generate" /\ StepOf(h))
                 => /\ ready_users' = ready_users
                    /\ pc'[h] \in {"ready_clear", "idle"}
                    /\ pc'[h] = "ready_clear"
                          <=> game_state'.current_scene
                                 = game_state.current_scene + 1
          /\ (pc[h] = "ready_clear" /\ StepOf(h))
                 => ready_users' = {} /\ pc'[h] = "idle"
    /\ ReadyCleared => \E h \in Users : pc[h] = "ready_clear" /\ StepOf(h)
    /\ ready_users \subseteq ready_users' \/ ready_users' = {}

====
